---------------------------- MODULE Spec2Model ----------------------------
(***************************************************************************)
(* The Canadian Fire Weather Index calculators of gee-fwi:                 *)
(*   src/gee_fwi/FWI.py  the stage classes and FWICalculator (package)     *)
(*   src/FWI.py          the earlier single-class FWICalculator (legacy)   *)
(*                                                                         *)
(* One pixel of every ee.Image is modelled.  A pixel value is a decimal    *)
(* fixed-point number: the integer v stands for v / SCALE.  Three integers *)
(* outside the numeric range stand for the IEEE values NaN, +Infinity and  *)
(* -Infinity that Earth Engine's double arithmetic produces.               *)
(***************************************************************************)
EXTENDS Integers, Sequences, FiniteSets, TLC

(***************************************************************************)
(* Pixel arithmetic (the ee.Image operators eemont overloads)              *)
(***************************************************************************)
HALF == 10 * 10
SCALE == HALF * HALF

NaN  == 0 - 2147483647
PInf == 0 + 2147483647
NInf == 0 - 2147483646

IsNaN(a) == a = NaN
IsInf(a) == a = PInf \/ a = NInf
IsFinite(a) == ~IsNaN(a) /\ ~IsInf(a)

Abs(a) == IF a < 0 THEN 0 - a ELSE a
Sgn(a) == IF a < 0 THEN 0 - 1 ELSE IF a > 0 THEN 1 ELSE 0

\* the decimal literal n/d of the source, e.g. 147.2 is Q(1472, 10)
Q(n, d) == (2 * n * SCALE + d) \div (2 * d)

\* an integer literal of the source
I(n) == n * SCALE

ONE == I(1)
ZERO == I(0)

\* ee.Image.add
Add(a, b) ==
    IF IsNaN(a) \/ IsNaN(b) THEN NaN
    ELSE IF IsInf(a) /\ IsInf(b) THEN (IF a = b THEN a ELSE NaN)
    ELSE IF IsInf(a) THEN a
    ELSE IF IsInf(b) THEN b
    ELSE a + b

\* unary minus
Neg(a) ==
    IF IsNaN(a) THEN NaN
    ELSE IF a = PInf THEN NInf
    ELSE IF a = NInf THEN PInf
    ELSE 0 - a

\* ee.Image.subtract
Sub(a, b) == Add(a, Neg(b))

\* the product of two non-negative fixed-point magnitudes, rounded
MulMag(A, B) ==
    LET ah == A \div SCALE
        al == A % SCALE
        bh == B \div SCALE
        bl == B % SCALE
    IN  ah * bh * SCALE + ah * bl + al * bh + (al * bl + SCALE \div 2) \div SCALE

\* ee.Image.multiply
Mul(a, b) ==
    IF IsNaN(a) \/ IsNaN(b) THEN NaN
    ELSE IF IsInf(a) \/ IsInf(b) THEN
        (IF a = 0 \/ b = 0 THEN NaN
         ELSE IF Sgn(a) * Sgn(b) > 0 THEN PInf ELSE NInf)
    ELSE Sgn(a) * Sgn(b) * MulMag(Abs(a), Abs(b))

\* the quotient of two fixed-point magnitudes, B > 0, by long division
DivLong(A, B) ==
    LET q  == A \div B
        r  == A % B
        t1 == (r * HALF) \div B
        r1 == (r * HALF) % B
        t2 == (r1 * HALF * 2 + B) \div (2 * B)
    IN  q * SCALE + t1 * HALF + t2

\* a divisor above 1000 is cut to six significant digits first, which keeps
\* the remainders of the long division in range
DivMag(A, B) ==
    IF B > 1000 * SCALE THEN DivLong(A \div HALF, B \div HALF) ELSE DivLong(A, B)

\* ee.Image.divide: "returning 0 for division by 0"
Div(a, b) ==
    IF IsNaN(a) \/ IsNaN(b) THEN NaN
    ELSE IF b = 0 THEN 0
    ELSE IF IsInf(a) /\ IsInf(b) THEN NaN
    ELSE IF IsInf(a) THEN (IF Sgn(a) * Sgn(b) > 0 THEN PInf ELSE NInf)
    ELSE IF IsInf(b) THEN 0
    ELSE Sgn(a) * Sgn(b) * DivMag(Abs(a), Abs(b))

\* ee.Image.gt, lt, lte, gte: a mask pixel is 1 or 0; a comparison with NaN is 0
Gt(a, b) == IF IsNaN(a) \/ IsNaN(b) THEN ZERO ELSE IF a > b THEN ONE ELSE ZERO
Lt(a, b) == IF IsNaN(a) \/ IsNaN(b) THEN ZERO ELSE IF a < b THEN ONE ELSE ZERO
Lte(a, b) == IF IsNaN(a) \/ IsNaN(b) THEN ZERO ELSE IF a <= b THEN ONE ELSE ZERO

\* ee.Image.Not: 1 where the pixel is 0, else 0
Not(a) == IF a = 0 THEN ONE ELSE ZERO

\* ee.Image.min, ee.Image.max
Min(a, b) == IF IsNaN(a) \/ IsNaN(b) THEN NaN ELSE IF a < b THEN a ELSE b
Max(a, b) == IF IsNaN(a) \/ IsNaN(b) THEN NaN ELSE IF a > b THEN a ELSE b

\* ee.Image.abs
AbsV(a) == IF IsNaN(a) THEN NaN ELSE IF IsInf(a) THEN PInf ELSE Abs(a)

\* e^k for k = 0 .. 12, in fixed point
EPow == << 10000, 27183, 73891, 200855, 545982, 1484132, 4034288, 10966332,
           29809580, 81030839, 220264658, 598741417, 1627547914 >>

RECURSIVE ExpSeries(_, _, _, _)
\* sum of the Taylor terms f^n/n! from term number n on, term being f^(n-1)/(n-1)!
ExpSeries(f, term, n, acc) ==
    IF term = 0 \/ n > 14 THEN acc
    ELSE LET t == (2 * MulMag(term, f) + n) \div (2 * n)
         IN  ExpSeries(f, t, n + 1, acc + t)

\* e^A for a magnitude A >= 0
ExpMag(A) ==
    LET k == A \div SCALE
        f == A % SCALE
    IN  MulMag(EPow[k + 1], ExpSeries(f, ONE, 1, ONE))

\* ee.Image.exp
Exp(a) ==
    IF IsNaN(a) THEN NaN
    ELSE IF a = PInf THEN PInf
    ELSE IF a = NInf THEN 0
    ELSE IF a >= 0 THEN ExpMag(a)
    ELSE IF a < 0 - 12 * SCALE THEN 0
    ELSE DivMag(ONE, ExpMag(0 - a))

RECURSIVE LnIndex(_, _)
\* the largest k in 0 .. 12 with e^k <= A, for A >= 1
LnIndex(A, k) == IF k < 12 /\ EPow[k + 2] <= A THEN LnIndex(A, k + 1) ELSE k

RECURSIVE AtanhSeries(_, _, _, _)
\* z + z^3/3 + z^5/5 + ...
AtanhSeries(z2, pow, n, acc) ==
    IF pow = 0 \/ n > 41 THEN acc
    ELSE AtanhSeries(z2, MulMag(pow, z2), n + 2, acc + (2 * pow + n) \div (2 * n))

\* ln A for a magnitude A >= 1
LnMag(A) ==
    LET k == LnIndex(A, 0)
        y == DivMag(A, EPow[k + 1])
        z == DivMag(y - ONE, y + ONE)
    IN  k * SCALE + 2 * AtanhSeries(MulMag(z, z), z, 1, 0)

\* ee.Image.log: the natural logarithm
Ln(a) ==
    IF IsNaN(a) THEN NaN
    ELSE IF a = PInf THEN PInf
    ELSE IF a < 0 THEN NaN
    ELSE IF a = 0 THEN NInf
    ELSE IF a >= ONE THEN LnMag(a)
    ELSE 0 - LnMag(DivMag(ONE, a))

\* ee.Image.pow with a finite exponent y that is not an integer
Pow(a, y) ==
    IF IsNaN(a) THEN NaN
    ELSE IF IsInf(a) THEN (IF y > 0 THEN PInf ELSE 0)
    ELSE IF a < 0 THEN NaN
    ELSE IF a = 0 THEN (IF y > 0 THEN 0 ELSE PInf)
    ELSE Exp(Mul(y, Ln(a)))

\* ee.Image.multiply by the literal 1e-6, which is below the fixed-point step
MulMicro(a) ==
    IF ~IsFinite(a) THEN a
    ELSE Sgn(a) * ((Abs(a) + 500000) \div 1000000)

\* ee.Image.pow with the exponent 2, and with the exponent 8
Sq(a) == Mul(a, a)
Pow8(a) == Sq(Sq(Sq(a)))

\* a ** y / d for a divisor d = dm * 10^de, as one step: the power alone
\* leaves the fixed-point range although the quotient does not
PowOver(a, y, dm, de) ==
    IF IsNaN(a) THEN NaN
    ELSE IF a < 0 THEN NaN
    ELSE IF a = 0 THEN 0
    ELSE Exp(Sub(Mul(y, Ln(a)), Add(Ln(dm), Mul(I(de), Ln(I(10))))))


\* F of the value of e, and of the values of d and e: a Python expression is
\* evaluated once, where it stands
Once(e, F(_)) == CHOOSE r \in {F(x) : x \in {e}} : TRUE
Once2(d, e, F(_, _)) == CHOOSE r \in {F(x, y) : x \in {d}, y \in {e}} : TRUE


(***************************************************************************)
(* src/gee_fwi/FWI.py: the stage classes.  w is the FWIInputs object: a    *)
(* record of the pixel's temp, rhum, wind and rain.                        *)
(***************************************************************************)

\* m_o of FineFuelMoistureCode.__raining_phase: the previous code as moisture
FFMC_m_o(ffmc_prev) ==
    Div(Mul(Q(1472, 10), Sub(I(101), ffmc_prev)), Add(Q(595, 10), ffmc_prev))

\* mutant: the rain threshold is written 0.05
FFMC_rain_threshold_low == Q(5, 100)

\* the rainfall above which FineFuelMoistureCode.__raining_phase counts rain
FFMC_rain_threshold == Q(5, 10)

\* r_f of FineFuelMoistureCode.__raining_phase: the effective rain
FFMC_r_f(w) ==
    Mul(Gt(w.rain, FFMC_rain_threshold), Sub(w.rain, FFMC_rain_threshold))

\* FineFuelMoistureCode.__raining_phase: self.mo
FFMC_raining_phase(ffmc_prev, w) ==
    LET m_o == FFMC_m_o(ffmc_prev)
        rain_mask == Gt(w.rain, FFMC_rain_threshold)
        negligible == Not(rain_mask)
        r_f == FFMC_r_f(w)
        comp_mask == Gt(m_o, I(150))
        normal == Not(comp_mask)
        delta_m_rain ==
            Mul(Mul(Mul(Q(425, 10), Exp(Div(Neg(I(100)), Sub(I(251), m_o)))),
                    Sub(ONE, Exp(Div(Neg(Q(693, 100)), r_f)))),
                r_f)
        corrective ==
            Mul(Mul(Q(15, 10000), Sq(Sub(m_o, I(150)))), Pow(r_f, Q(5, 10)))
        delta_m_c == Add(delta_m_rain, corrective)
        delta_m_r == delta_m_rain
        delta_m_n == Mul(ZERO, negligible)
        delta_m == Add(Mul(rain_mask, Add(Mul(comp_mask, delta_m_c),
                                          Mul(normal, delta_m_r))),
                       delta_m_n)
    IN  Min(Add(m_o, delta_m), I(250))

\* the equilibrium moisture contents of FineFuelMoistureCode.__drying_phase
FFMC_E_d(w) ==
    Add(Add(Mul(Q(942, 1000), Pow(w.rhum, Q(679, 1000))),
            Mul(I(11), Exp(Div(Sub(w.rhum, I(100)), I(10))))),
        Mul(Mul(Q(18, 100), Sub(Q(211, 10), w.temp)),
            Sub(ONE, Exp(Mul(Neg(Q(115, 1000)), w.rhum)))))

FFMC_E_w(w) ==
    Add(Add(Mul(Q(618, 1000), Pow(w.rhum, Q(753, 1000))),
            Mul(I(10), Exp(Div(Sub(w.rhum, I(100)), I(10))))),
        Mul(Mul(Q(18, 100), Sub(Q(211, 10), w.temp)),
            Sub(ONE, Exp(Mul(Neg(Q(115, 1000)), w.rhum)))))

\* k_1 and k_0 of FineFuelMoistureCode.__drying_phase
FFMC_k_1(w) ==
    LET dry == Div(Sub(I(100), w.rhum), I(100))
    IN  Add(Mul(Q(424, 1000), Sub(ONE, Pow(dry, Q(17, 10)))),
            Mul(Mul(Q(694, 10000), Pow(w.wind, Q(5, 10))),
                Sub(ONE, Pow8(dry))))

FFMC_k_0(w) ==
    LET wet == Div(w.rhum, I(100))
    IN  Add(Mul(Q(424, 1000), Sub(ONE, Pow(wet, Q(17, 10)))),
            Mul(Mul(Q(694, 10000), Pow(w.wind, Q(5, 10))),
                Sub(ONE, Pow8(wet))))

\* the masks of FineFuelMoistureCode.__drying_phase and the moisture content
\* each of the two moving branches gives before its mask is applied
FFMC_branches(mo, w) ==
    Once2(FFMC_E_d(w), FFMC_E_w(w), LAMBDA E_d, E_w :
        LET k_d == Mul(Mul(FFMC_k_0(w), Q(581, 1000)), Exp(Mul(Q(365, 10000), w.temp)))
            k_w == Mul(Mul(FFMC_k_1(w), Q(581, 1000)), Exp(Mul(Q(365, 10000), w.temp)))
            drying == Gt(mo, E_d)
            wetting == Lt(mo, E_w)
        IN  [drying |-> drying,
             wetting |-> wetting,
             no_change |-> Not(Add(drying, wetting)),
             v_drying |-> Add(E_d, Div(Sub(mo, E_d), Pow(I(10), k_d))),
             v_wetting |-> Sub(E_w, Div(Sub(E_w, mo), Pow(I(10), k_w)))])

\* the blended moisture content m of FineFuelMoistureCode.__drying_phase, from
\* the masks and branch values b
FFMC_m(b, mo) ==
    LET m_drying == Mul(b.drying, b.v_drying)
        m_wetting == Mul(b.wetting, b.v_wetting)
        m_no_change == Mul(b.no_change, mo)
    IN  Add(Add(m_drying, m_wetting), m_no_change)

\* the FFMC scale of a moisture content, before any clamp
FFMC_scale(m) == Div(Mul(Q(595, 10), Sub(I(250), m)), Add(Q(1472, 10), m))

\* FineFuelMoistureCode.__drying_phase: the masks, m and self.ffmc
FFMC_drying_phase(mo, w) ==
    Once(FFMC_branches(mo, w), LAMBDA b :
        Once(FFMC_m(b, mo), LAMBDA m :
            [masks |-> b, m |-> m, ffmc |-> Min(FFMC_scale(m), I(101))]))

\* FineFuelMoistureCode.compute
FFMC_compute(ffmc_prev, w) ==
    Once(FFMC_raining_phase(ffmc_prev, w), LAMBDA mo : FFMC_drying_phase(mo, w).ffmc)

\* the day-length and drying-factor tables, indexed by month 1 .. 12, in tenths
DayLength46N == << 65, 75, 90, 128, 139, 139, 124, 109, 94, 80, 70, 60 >>
DayLength20N == << 79, 84, 89, 95, 99, 102, 101, 97, 91, 86, 81, 78 >>
DayLength20S == << 101, 96, 91, 85, 81, 78, 79, 83, 89, 94, 99, 102 >>
DayLength40S == << 115, 105, 92, 79, 68, 62, 65, 74, 87, 100, 112, 118 >>
LfN == << -16, -16, -16, 9, 38, 58, 64, 50, 24, 4, -16, -16 >>
LfS == << 64, 50, 24, 4, -16, -16, -16, -16, -16, 9, 38, 58 >>

\* a calendar date as year * 10000 + month * 100 + day; datetime.date.month
MonthOf(date) == (date \div 100) % 100

\* ee.Image.lte(a) * ee.Image.gt(b)
Band(latitude, hi, lo) == Mul(Lte(latitude, hi), Gt(latitude, lo))

\* the four latitude masks of DuffMoistureCode.__calculate_day_length
DMC_day_length_masks(latitude) ==
    [mask_1 |-> Band(latitude, I(90), I(33)),
     mask_2 |-> Band(latitude, I(33), I(0)),
     mask_3 |-> Band(latitude, I(0), Neg(I(30))),
     mask_4 |-> Band(latitude, Neg(I(30)), Neg(I(90)))]

\* DuffMoistureCode.__calculate_day_length
DMC_calculate_day_length(latitude, month) ==
    LET mask_1 == DMC_day_length_masks(latitude).mask_1
        mask_2 == DMC_day_length_masks(latitude).mask_2
        mask_3 == DMC_day_length_masks(latitude).mask_3
        mask_4 == DMC_day_length_masks(latitude).mask_4
        length_1 == Mul(mask_1, Q(DayLength46N[month], 10))
        length_2 == Mul(mask_2, Q(DayLength20N[month], 10))
        length_3 == Mul(mask_3, Q(DayLength20S[month], 10))
        length_4 == Mul(mask_4, Q(DayLength40S[month], 10))
    IN  Add(Add(Add(length_1, length_2), length_3), length_4)

\* mutant: the equatorial flag is not consulted
DMC_get_day_length_table(equatorial, latitude, month) ==
    DMC_calculate_day_length(latitude, month)

\* DuffMoistureCode.__get_day_length
DMC_get_day_length(equatorial, latitude, month) ==
    IF equatorial THEN I(9) ELSE DMC_calculate_day_length(latitude, month)

\* the piecewise masks of DuffMoistureCode.__raining_phase
DMC_pw(dmc_prev) ==
    [pw_1 |-> Lte(dmc_prev, I(33)),
     pw_2 |-> Mul(Lte(dmc_prev, I(65)), Gt(dmc_prev, I(33))),
     pw_3 |-> Gt(dmc_prev, I(65))]

\* the three slope expressions of DuffMoistureCode.__raining_phase, unmasked
DMC_slopes(dmc_prev) ==
    [b_1 |-> Div(I(100), Add(Q(5, 10), Mul(Q(3, 10), dmc_prev))),
     b_2 |-> Sub(I(14), Mul(Q(13, 10), Ln(dmc_prev))),
     b_3 |-> Sub(Mul(Q(62, 10), Ln(dmc_prev)), Q(172, 10))]

\* the slope b of DuffMoistureCode.__raining_phase
DMC_b(dmc_prev, rain_mask) ==
    Once2(DMC_pw(dmc_prev), DMC_slopes(dmc_prev), LAMBDA pw, e :
        LET b_1 == Mul(Mul(e.b_1, rain_mask), pw.pw_1)
            b_2 == Mul(Mul(e.b_2, rain_mask), pw.pw_2)
            b_3 == Mul(Mul(e.b_3, rain_mask), pw.pw_3)
        IN  Add(Add(b_1, b_2), b_3))

\* DuffMoistureCode.__raining_phase: self.P_prev
DMC_raining_phase(dmc_prev, w) ==
    LET M_o == Add(I(20), Div(I(280), Exp(Mul(Q(23, 1000), dmc_prev))))
        rain_mask == Gt(w.rain, Q(15, 10))
        negligible == Not(rain_mask)
        r_e == Sub(Mul(Q(92, 100), w.rain), Q(127, 100))
        b == DMC_b(dmc_prev, rain_mask)
        M_r == Add(M_o, Div(Mul(I(1000), r_e), Add(Q(4877, 100), Mul(b, r_e))))
        P_r == Max(Mul(rain_mask,
                       Sub(Q(24472, 100), Mul(Q(4343, 100), Ln(Sub(M_r, I(20)))))),
                   ZERO)
        P_n == Mul(negligible, dmc_prev)
    IN  Add(P_r, P_n)

\* the log drying rate K of DuffMoistureCode.__drying_phase
DMC_K(w, day_length) ==
    LET log_drying_rate == Gt(w.temp, Neg(Q(11, 10)))
        negligible == Not(log_drying_rate)
        k_d == MulMicro(Mul(Mul(Mul(Mul(log_drying_rate, Q(1894, 1000)),
                                    Add(w.temp, Q(11, 10))),
                                Sub(I(100), w.rhum)),
                            day_length))
        k_n == Mul(negligible, ZERO)
    IN  Add(k_d, k_n)

\* DuffMoistureCode.__drying_phase: self.dmc
DMC_drying_phase(P_prev, w, day_length) == Add(P_prev, Mul(I(100), DMC_K(w, day_length)))

\* DuffMoistureCode.compute
DMC_compute(dmc_prev, w, equatorial, latitude, month) ==
    Once2(DMC_raining_phase(dmc_prev, w),
          DMC_get_day_length(equatorial, latitude, month),
          LAMBDA P_prev, day_length : DMC_drying_phase(P_prev, w, day_length))

\* DroughtCode.__calculate_drying_factor
DC_calculate_drying_factor(latitude, month) ==
    LET mask_1 == Gt(latitude, I(0))
        mask_2 == Lte(latitude, I(0))
        factor_1 == Mul(mask_1, Q(LfN[month], 10))
        factor_2 == Mul(mask_2, Q(LfS[month], 10))
    IN  Add(factor_1, factor_2)

\* DroughtCode.__get_drying_factor
DC_get_drying_factor(equatorial, latitude, month) ==
    IF equatorial THEN Q(139, 100) ELSE DC_calculate_drying_factor(latitude, month)

\* DroughtCode.__raining_phase: self.D_prev
DC_raining_phase(dc_prev, w) ==
    LET Q_o == Mul(I(800), Exp(Div(Mul(Neg(ONE), dc_prev), I(400))))
        rain_mask == Gt(w.rain, Q(28, 10))
        negligible == Not(rain_mask)
        r_d == Mul(rain_mask, Sub(Mul(Q(83, 100), w.rain), Q(127, 100)))
        Q_r == Add(Q_o, Mul(Q(3937, 1000), r_d))
        D_rain == Max(Mul(rain_mask, Mul(I(400), Ln(Div(I(800), Q_r)))), ZERO)
        D_negligible == Mul(negligible, dc_prev)
    IN  Add(D_rain, D_negligible)

\* the drying term V of DroughtCode.__drying_phase
DC_V(w, drying_factor) ==
    LET drying_phase == Gt(w.temp, Neg(Q(28, 10)))
        negligible == Not(drying_phase)
        V_d == Mul(Add(Mul(Q(36, 100), Add(w.temp, Q(28, 10))), drying_factor),
                   drying_phase)
        V_n == Mul(drying_factor, negligible)
    IN  Add(V_d, V_n)

\* DroughtCode.__drying_phase: self.dc
DC_drying_phase(D_prev, w, drying_factor) ==
    Add(D_prev, Mul(Q(5, 10), DC_V(w, drying_factor)))

\* DroughtCode.compute
DC_compute(dc_prev, w, equatorial, latitude, month) ==
    DC_drying_phase(DC_raining_phase(dc_prev, w), w,
                    DC_get_drying_factor(equatorial, latitude, month))

\* InitialSpreadIndex.compute
ISI_compute(wind, ffmc) ==
    LET f_Wind == Exp(Mul(Q(5039, 100000), wind))
        m == Div(Mul(Q(1472, 10), Sub(I(101), ffmc)), Add(Q(595, 10), ffmc))
        f_F == Mul(Mul(Q(919, 10), Exp(Mul(Neg(Q(1386, 10000)), m))),
                   Add(ONE, PowOver(m, Q(531, 100), Q(493, 100), 7)))
    IN  Mul(Mul(Q(208, 1000), f_Wind), f_F)

\* the two branches of BuildupIndex.compute, before masking
BUI_B_1(dmc, dc) ==
    Div(Mul(Mul(Q(8, 10), dmc), dc), Add(dmc, Mul(Q(4, 10), dc)))

BUI_B_2(dmc, dc) ==
    Sub(dmc,
        Mul(Sub(ONE, Div(Mul(Q(8, 10), dc), Add(dmc, Mul(Q(4, 10), dc)))),
            Add(Q(92, 100), Pow(Mul(Q(114, 10000), dmc), Q(17, 10)))))

\* mutant: the boundary dmc = 0.4 * dc goes to the other branch
BUI_cond_strict(dmc, dc) == Lt(dmc, Mul(Q(4, 10), dc))

\* the mask of BuildupIndex.compute
BUI_cond(dmc, dc) == Lte(dmc, Mul(Q(4, 10), dc))

\* mutant: the two branches are blended under each other's mask
BUI_compute_swapped(dmc, dc) ==
    LET cond == BUI_cond(dmc, dc)
        not_cond == Not(cond)
    IN  Add(Mul(BUI_B_1(dmc, dc), not_cond), Mul(BUI_B_2(dmc, dc), cond))

\* BuildupIndex.compute
BUI_compute(dmc, dc) ==
    LET cond == BUI_cond(dmc, dc)
        not_cond == Not(cond)
    IN  Add(Mul(BUI_B_1(dmc, dc), cond), Mul(BUI_B_2(dmc, dc), not_cond))

\* FireWeatherIndex.__heat_transfer and FireWeatherIndex.__normal
FWI_heat_transfer(bui) ==
    Div(I(1000), Add(I(25), Mul(Q(10864, 100), Exp(Mul(Neg(Q(23, 1000)), bui)))))

FWI_normal(bui) == Add(Mul(Q(626, 1000), Pow(bui, Q(809, 1000))), I(2))

\* B of FireWeatherIndex.compute
FWI_B(isi, bui) ==
    LET heat_transfer == Gt(bui, I(80))
        normal == Not(heat_transfer)
        fD_n == Mul(normal, FWI_normal(bui))
        fD_h == Mul(heat_transfer, FWI_heat_transfer(bui))
        fD == Add(fD_n, fD_h)
    IN  Mul(Mul(Q(1, 10), isi), fD)

\* the S-scale expression of FireWeatherIndex.compute, before masking
FWI_S(B) == Exp(Mul(Q(272, 100), Pow(Mul(Q(434, 1000), Ln(B)), Q(647, 1000))))

\* mutant: the B-scale mask is not negated
FWI_blend_same_mask(B) ==
    LET S_scale == Gt(B, ONE)
        B_scale == S_scale
        fwi_s == Mul(FWI_S(B), S_scale)
        fwi_b == Mul(B, B_scale)
    IN  Add(fwi_s, fwi_b)

\* the blend of FireWeatherIndex.compute
FWI_blend(B) ==
    LET S_scale == Gt(B, ONE)
        B_scale == Not(S_scale)
        fwi_s == Mul(FWI_S(B), S_scale)
        fwi_b == Mul(B, B_scale)
    IN  Add(fwi_s, fwi_b)

\* FireWeatherIndex.compute
FWI_compute(isi, bui) == Once(FWI_B(isi, bui), LAMBDA B : FWI_blend(B))

(***************************************************************************)
(* src/FWI.py: the formulas of the legacy FWICalculator.  math.exp(1) ** x *)
(* is ee.Image(e).pow(x), modelled as Exp(x).                              *)
(***************************************************************************)

\* the moisture content after rain of legacy calculate_fine_fuel_moisture_code
Legacy_FFMC_mo(ffmc_prev, w) ==
    LET m_o == FFMC_m_o(ffmc_prev)
        rain == Gt(w.rain, Q(5, 10))
        negligible_rain == Not(rain)
        r_f == Mul(rain, Sub(w.rain, Q(5, 10)))
        comp == Gt(m_o, I(150))
        normal == Not(comp)
        delta_m_rf == Mul(Mul(Q(425, 10), Exp(Div(Neg(I(100)), Sub(I(251), m_o)))),
                          Sub(ONE, Exp(Div(Neg(Q(693, 100)), r_f))))
        corrective ==
            Mul(Mul(Q(15, 10000), Sq(Sub(m_o, I(150)))), Pow(r_f, Q(5, 10)))
        delta_m == Add(Add(Mul(Mul(comp, Add(delta_m_rf, corrective)), r_f),
                           Mul(Mul(normal, delta_m_rf), r_f)),
                       Mul(negligible_rain, ZERO))
    IN  Min(Add(m_o, delta_m), I(250))

\* the masks of legacy calculate_fine_fuel_moisture_code and the moisture
\* content each of the two moving branches gives before its mask is applied
Legacy_FFMC_branches(mo, w) ==
    Once2(FFMC_E_d(w), FFMC_E_w(w), LAMBDA E_d, E_w :
        Once(Mul(Mul(FFMC_k_1(w), Q(581, 1000)), Exp(Mul(Q(365, 10000), w.temp))),
             LAMBDA k :
        LET k_d == k
            k_w == k
            drying == Gt(mo, E_d)
            wetting == Lt(mo, E_w)
        IN  [drying |-> drying,
             wetting |-> wetting,
             no_change |-> Not(Mul(drying, wetting)),
             v_drying |-> Add(E_d, Mul(Sub(mo, E_d), Pow(I(10), Mul(Neg(ONE), k_d)))),
             v_wetting |-> Sub(E_w, Mul(Sub(E_w, mo), Pow(I(10), Mul(Neg(ONE), k_w))))]))

\* the blended moisture content m of legacy calculate_fine_fuel_moisture_code,
\* from the masks and branch values b
Legacy_FFMC_m(b, mo) ==
    LET m_drying == Mul(b.drying, b.v_drying)
        m_wetting == Mul(b.wetting, b.v_wetting)
        m_no_change == Mul(b.no_change, mo)
    IN  Add(Add(m_drying, m_wetting), m_no_change)

\* the drying and wetting phase of legacy calculate_fine_fuel_moisture_code: the
\* masks, m and self.ffmc
Legacy_FFMC_drying(mo, w) ==
    Once(Legacy_FFMC_branches(mo, w), LAMBDA b :
        Once(Legacy_FFMC_m(b, mo), LAMBDA m :
            [masks |-> b, m |-> m,
             ffmc |-> Div(Mul(Q(595, 10), Sub(I(250), m)), Add(Q(1472, 10), m))]))

\* legacy calculate_fine_fuel_moisture_code: self.ffmc
Legacy_FFMC(ffmc_prev, w) ==
    Once(Legacy_FFMC_mo(ffmc_prev, w), LAMBDA mo : Legacy_FFMC_drying(mo, w).ffmc)

\* the slope b of legacy calculate_duff_moisture_code
Legacy_DMC_b(dmc_prev) ==
    Once2(DMC_pw(dmc_prev), DMC_slopes(dmc_prev), LAMBDA pw, e :
        Add(Add(Mul(pw.pw_1, e.b_1), Mul(pw.pw_2, e.b_2)), Mul(pw.pw_3, e.b_3)))

\* P_prev of legacy calculate_duff_moisture_code: the code after rain
Legacy_DMC_P_prev(dmc_prev, w) ==
    LET M_o == Add(I(20), Div(I(280), Exp(Mul(Q(23, 1000), dmc_prev))))
        rain == Gt(w.rain, Q(15, 10))
        negligible_rain == Not(rain)
        r_e == Sub(Mul(Mul(rain, Q(92, 100)), w.rain), Q(127, 100))
        b == Legacy_DMC_b(dmc_prev)
        M_r == Add(Mul(rain, M_o),
                   Div(Mul(I(1000), r_e), Add(Q(4877, 100), Mul(b, r_e))))
        M_r_abs == AbsV(Sub(M_r, I(20)))
        P_rain == Max(Mul(rain, Sub(Q(24472, 100), Mul(Q(4343, 100), Ln(M_r_abs)))),
                      ZERO)
        P_negligible_rain == Mul(negligible_rain, dmc_prev)
    IN  Add(P_rain, P_negligible_rain)

\* K of legacy calculate_duff_moisture_code
Legacy_DMC_K(w, day_length) ==
    LET log_drying_rate == Gt(w.temp, Neg(Q(11, 10)))
        negligible == Not(log_drying_rate)
    IN  Add(MulMicro(Mul(Mul(Mul(Mul(log_drying_rate, Q(1894, 1000)),
                                 Add(w.temp, Q(11, 10))),
                             Sub(I(100), w.rhum)),
                         day_length)),
            Mul(negligible, ZERO))

\* legacy calculate_duff_moisture_code: self.dmc
Legacy_DMC(dmc_prev, w, day_length) ==
    Once2(Legacy_DMC_P_prev(dmc_prev, w), Legacy_DMC_K(w, day_length),
          LAMBDA P_prev, K : Add(P_prev, Mul(I(100), K)))

\* D_prev of legacy calculate_drought_code: the code after rain
Legacy_DC_D_prev(dc_prev, w) ==
    LET Q_o == Mul(I(800), Exp(Div(Mul(Neg(ONE), dc_prev), I(400))))
        rain == Gt(w.rain, Q(28, 10))
        negligible_rain == Not(rain)
        r_d == Sub(Mul(Q(83, 100), w.rain), Q(127, 100))
        Q_r == Add(Q_o, Mul(Q(3937, 1000), r_d))
        D_rain == Max(Mul(rain, Mul(I(400), Ln(Div(I(800), Q_r)))), ZERO)
        D_negligible_rain == Mul(negligible_rain, dc_prev)
    IN  Add(D_rain, D_negligible_rain)

\* V of legacy calculate_drought_code
Legacy_DC_V(w, drying_factor) ==
    LET negligible_rain == Not(Gt(w.rain, Q(28, 10)))
        drying_phase == Gt(w.temp, Neg(Q(28, 10)))
    IN  Add(Mul(drying_phase,
                Add(Mul(Q(36, 100), Add(w.temp, Q(28, 10))), drying_factor)),
            Mul(negligible_rain, drying_factor))

\* legacy calculate_drought_code: self.dc
Legacy_DC(dc_prev, w, drying_factor) ==
    Add(Legacy_DC_D_prev(dc_prev, w), Mul(Q(5, 10), Legacy_DC_V(w, drying_factor)))

\* legacy calculate_buildup_index: self.bui from self.dmc and self.dc
Legacy_BUI(dmc, dc) ==
    LET cond == Lte(dmc, Mul(Q(4, 10), dc))
        not_cond == Not(cond)
    IN  Add(Mul(cond, Div(Mul(Mul(Q(8, 10), dmc), dc), Add(dmc, Mul(Q(4, 10), dc)))),
            Mul(not_cond,
                Sub(dmc,
                    Mul(Sub(ONE, Div(Mul(Q(8, 10), dc), Add(dmc, Mul(Q(4, 10), dc)))),
                        Add(Q(92, 100), Pow(Mul(Q(114, 10000), dmc), Q(17, 10)))))))

\* B of legacy calculate_fire_weather_index
Legacy_FWI_B(isi, bui) ==
    LET heat_transfer == Gt(bui, I(80))
        original == Not(heat_transfer)
        fD == Add(Mul(original, Add(Mul(Q(626, 1000), Pow(bui, Q(809, 1000))), I(2))),
                  Mul(heat_transfer,
                      Div(I(1000), Add(I(25), Mul(Q(10864, 100),
                                                  Exp(Mul(Neg(Q(23, 1000)), bui)))))))
    IN  Mul(Mul(Q(1, 10), isi), fD)

\* S of legacy calculate_fire_weather_index, from the masked logarithm:
\* e ** ((2.72 * 0.434 * B_log) ** 0.647), the power operator binding to the right
Legacy_FWI_S(B_log) ==
    Exp(Pow(Mul(Mul(Q(272, 100), Q(434, 1000)), B_log), Q(647, 1000)))

\* B_log of legacy calculate_fire_weather_index: the logarithm under its mask
Legacy_FWI_B_log(B) == Mul(Gt(B, ONE), Ln(B))

\* the blend of legacy calculate_fire_weather_index
Legacy_FWI_blend(B) ==
    LET use_log == Gt(B, ONE)
        dn_use_log == Not(use_log)
        B_log == Legacy_FWI_B_log(B)
        S == Legacy_FWI_S(B_log)
    IN  Add(Mul(dn_use_log, B), Mul(use_log, S))

\* legacy calculate_fire_weather_index: self.fwi from self.isi and self.bui
Legacy_FWI(isi, bui) == Once(Legacy_FWI_B(isi, bui), LAMBDA B : Legacy_FWI_blend(B))

(***************************************************************************)
(* The environment: what the callers pass in.                              *)
(***************************************************************************)

\* an FWIInputs object: the four weather images at the pixel
FWIInputs(temp, rhum, wind, rain) ==
    [temp |-> temp, rhum |-> rhum, wind |-> wind, rain |-> rain]

WeatherRef == FWIInputs(I(17), I(42), I(25), I(0))
WeatherRain == FWIInputs(I(20), I(80), I(10), I(12))
WeatherDry == FWIInputs(I(40), I(0), I(100), I(0))
WeatherCold == FWIInputs(Neg(I(5)), I(100), I(0), I(30))
WeatherDrizzle == FWIInputs(I(17), I(42), I(25), Q(5, 10))
WeatherHumid == FWIInputs(I(10), I(95), I(5), I(0))
WeatherFrost == FWIInputs(Neg(I(5)), I(50), I(10), I(0))
WeatherShower == FWIInputs(I(17), I(42), I(25), Q(28, 10))

\* the weather the callers of the calculators supply
Weather == {WeatherRef, WeatherRain}

\* the observation dates they supply
Dates == {20210415, 20210701}

\* the initial codes they supply: (ffmc_prev, dmc_prev, dc_prev)
InitialCodes == {<< I(85), I(6), I(15) >>, << I(50), I(40), I(300) >>}

\* the latitude of the modelled pixel
Latitudes == {I(46)}

\* how many method calls a run makes on one calculator
MaxCalls == 6

(***************************************************************************)
(* src/gee_fwi/FWI.py: FWICalculator                                       *)
(***************************************************************************)
VARIABLES
    attr,        \* the attributes a method may find missing: name -> pixel value
    obs,         \* self.obs
    inputs,      \* self.inputs
    equatorial,  \* self.equatorial
    raised,      \* the exception the last call raised, "none" if it returned
    call,        \* the method called last
    latitude,    \* ee.Image.pixelLonLat() at the pixel
    calls,       \* method calls so far
    args,        \* the arguments a stage object was constructed with
    out          \* what the stage object's compute() produced from args

vars == << attr, obs, inputs, equatorial, raised, call, latitude, calls, args, out >>

\* no stage object has been constructed on its own
NoStage == [stage |-> "none"]

NoAttr == [n \in {} |-> 0]

\* the object a method runs on, with the exception it has raised so far
Self == [attr |-> attr, obs |-> obs, inputs |-> inputs,
         equatorial |-> equatorial, raised |-> "none"]

\* hasattr(self, n)
Has(s, n) == n \in DOMAIN s.attr

\* self.n = v
Put(s, n, v) ==
    Once(v, LAMBDA x : [s EXCEPT !.attr = [k \in DOMAIN s.attr \cup {n} |->
                                             IF k = n THEN x ELSE s.attr[k]]])

\* reading a missing attribute raises AttributeError
Raise(s) == [s EXCEPT !.raised = "AttributeError"]

\* self.n = self.m
Copy(s, n, m) == IF Has(s, m) THEN Put(s, n, s.attr[m]) ELSE Raise(s)

\* the next statement runs unless an exception is propagating
Then(s, F(_)) == Once(s, LAMBDA x : IF x.raised # "none" THEN x ELSE F(x))

\* FWICalculator.set_initial_codes
set_initial_codes(s, ffmc_prev, dmc_prev, dc_prev) ==
    Put(Put(Put(s, "ffmc_prev", ffmc_prev), "dmc_prev", dmc_prev), "dc_prev", dc_prev)

\* FWICalculator.set_equatorial_mode
set_equatorial_mode(s, e) == [s EXCEPT !.equatorial = e]

\* mutant: a missing ffmc_prev falls back to a default start-up value
calculate_fine_fuel_moisture_code_default(s) ==
    Put(s, "ffmc", FFMC_compute(IF Has(s, "ffmc_prev") THEN s.attr.ffmc_prev ELSE I(85),
                                s.inputs))

\* FWICalculator.calculate_fine_fuel_moisture_code
calculate_fine_fuel_moisture_code(s) ==
    IF ~Has(s, "ffmc_prev") THEN Raise(s)
    ELSE Put(s, "ffmc", FFMC_compute(s.attr.ffmc_prev, s.inputs))

\* mutant: the stage keeps its after-rain code in self.dmc_prev
calculate_duff_moisture_code_in_place(s) ==
    IF ~Has(s, "dmc_prev") THEN Raise(s)
    ELSE Put(Put(s, "dmc", DMC_compute(s.attr.dmc_prev, s.inputs, s.equatorial,
                                       latitude, MonthOf(s.obs))),
             "dmc_prev", DMC_raining_phase(s.attr.dmc_prev, s.inputs))

\* FWICalculator.calculate_duff_moisture_code
calculate_duff_moisture_code(s) ==
    IF ~Has(s, "dmc_prev") THEN Raise(s)
    ELSE Put(s, "dmc", DMC_compute(s.attr.dmc_prev, s.inputs, s.equatorial,
                                   latitude, MonthOf(s.obs)))

\* mutant: the stage starts from today's dmc when the DMC stage has already run
calculate_drought_code_after_dmc(s) ==
    IF ~Has(s, "dc_prev") THEN Raise(s)
    ELSE Put(s, "dc", DC_compute(IF Has(s, "dmc") THEN s.attr.dmc ELSE s.attr.dc_prev,
                                 s.inputs, s.equatorial, latitude, MonthOf(s.obs)))

\* mutant: the DC stage is always constructed in equatorial mode
calculate_drought_code_equatorial(s) ==
    IF ~Has(s, "dc_prev") THEN Raise(s)
    ELSE Put(s, "dc", DC_compute(s.attr.dc_prev, s.inputs, TRUE, latitude,
                                 MonthOf(s.obs)))

\* FWICalculator.calculate_drought_code
calculate_drought_code(s) ==
    IF ~Has(s, "dc_prev") THEN Raise(s)
    ELSE Put(s, "dc", DC_compute(s.attr.dc_prev, s.inputs, s.equatorial,
                                 latitude, MonthOf(s.obs)))

\* FWICalculator.calculate_initial_spread_index
calculate_initial_spread_index(s) ==
    IF ~Has(s, "ffmc") THEN Raise(s)
    ELSE Put(s, "isi", ISI_compute(s.inputs.wind, s.attr.ffmc))

\* FWICalculator.calculate_buildup_index
calculate_buildup_index(s) ==
    IF ~Has(s, "dmc") \/ ~Has(s, "dc") THEN Raise(s)
    ELSE Put(s, "bui", BUI_compute(s.attr.dmc, s.attr.dc))

\* FWICalculator.calculate_fire_weather_index
calculate_fire_weather_index(s) ==
    IF ~Has(s, "isi") \/ ~Has(s, "bui") THEN Raise(s)
    ELSE Put(s, "fwi", FWI_compute(s.attr.isi, s.attr.bui))

\* mutant: the spread index is calculated before the moisture codes
compute_isi_first(s) ==
    Then(Then(Then(Then(Then(calculate_initial_spread_index(s),
                             calculate_fine_fuel_moisture_code),
                        calculate_duff_moisture_code),
                   calculate_drought_code),
              calculate_buildup_index),
         calculate_fire_weather_index)

\* mutant: compute() takes today's FFMC as the previous code when it is done
compute_advancing(s) ==
    Then(Then(Then(Then(Then(Then(calculate_fine_fuel_moisture_code(s),
                                  calculate_duff_moisture_code),
                             calculate_drought_code),
                        calculate_initial_spread_index),
                   calculate_buildup_index),
              calculate_fire_weather_index),
         LAMBDA t : Copy(t, "ffmc_prev", "ffmc"))

\* FWICalculator.compute
compute(s) ==
    Then(Then(Then(Then(Then(calculate_fine_fuel_moisture_code(s),
                             calculate_duff_moisture_code),
                        calculate_drought_code),
                   calculate_initial_spread_index),
              calculate_buildup_index),
         calculate_fire_weather_index)

\* the statements of FWICalculator.update_daily_parameters, in order
update_ffmc_prev(s) == Copy(s, "ffmc_prev", "ffmc")
update_dmc_prev(s) == Copy(s, "dmc_prev", "dmc")
update_dc_prev(s) == Copy(s, "dc_prev", "dc")
update_date_prev(s) == Copy(s, "date_prev", "date")

\* FWICalculator.update_daily_parameters
update_daily_parameters(s, o, i) ==
    Then(Then(Then(Then(update_ffmc_prev(s), update_dmc_prev),
                   update_dc_prev), update_date_prev),
         LAMBDA t : [t EXCEPT !.obs = o, !.inputs = i])

\* a call of method m that leaves the object as r
Returns(m, r) ==
    /\ calls < MaxCalls
    /\ calls' = calls + 1
    /\ \E x \in {r} :
          /\ attr' = x.attr
          /\ obs' = x.obs
          /\ inputs' = x.inputs
          /\ equatorial' = x.equatorial
          /\ raised' = x.raised
    /\ call' = m
    /\ latitude' = latitude
    /\ UNCHANGED << args, out >>

\* FWICalculator.__init__
Init ==
    /\ attr = NoAttr
    /\ obs \in Dates
    /\ inputs \in Weather
    /\ equatorial = TRUE
    /\ raised = "none"
    /\ call = "__init__"
    /\ latitude \in Latitudes
    /\ calls = 0
    /\ args = NoStage
    /\ out = NoStage

SetInitialCodes ==
    \E c \in InitialCodes :
          Returns("set_initial_codes", set_initial_codes(Self, c[1], c[2], c[3]))

SetEquatorialMode ==
    \E e \in BOOLEAN :
          Returns("set_equatorial_mode", set_equatorial_mode(Self, e))

CalculateFineFuelMoistureCode ==
    Returns("calculate_fine_fuel_moisture_code",
               calculate_fine_fuel_moisture_code(Self))

CalculateDuffMoistureCode ==
    Returns("calculate_duff_moisture_code", calculate_duff_moisture_code(Self))

CalculateDroughtCode ==
    Returns("calculate_drought_code", calculate_drought_code(Self))

CalculateInitialSpreadIndex ==
    Returns("calculate_initial_spread_index",
               calculate_initial_spread_index(Self))

CalculateBuildupIndex ==
    Returns("calculate_buildup_index", calculate_buildup_index(Self))

CalculateFireWeatherIndex ==
    Returns("calculate_fire_weather_index", calculate_fire_weather_index(Self))

Compute ==
    Returns("compute", compute(Self))

UpdateDailyParameters ==
    \E o \in Dates, i \in Weather :
          Returns("update_daily_parameters", update_daily_parameters(Self, o, i))

Next ==
    \/ SetInitialCodes
    \/ SetEquatorialMode
    \/ CalculateFineFuelMoistureCode
    \/ CalculateDuffMoistureCode
    \/ CalculateDroughtCode
    \/ CalculateInitialSpreadIndex
    \/ CalculateBuildupIndex
    \/ CalculateFireWeatherIndex
    \/ Compute
    \/ UpdateDailyParameters

Spec == Init /\ [][Next]_vars


(***************************************************************************)
(* Properties of FWICalculator (src/gee_fwi/FWI.py)                        *)
(***************************************************************************)
StageMethods ==
    {"calculate_fine_fuel_moisture_code", "calculate_duff_moisture_code",
     "calculate_drought_code", "calculate_initial_spread_index",
     "calculate_buildup_index", "calculate_fire_weather_index", "compute"}

PrevCodes == {"ffmc_prev", "dmc_prev", "dc_prev"}
Outputs == {"ffmc", "dmc", "dc", "isi", "bui", "fwi"}

\* the three previous-day codes have been set
Initialised == PrevCodes \subseteq DOMAIN attr

\* compute() has just returned without raising
Computed == call = "compute" /\ raised = "none"

\* the step is update_daily_parameters(o, i)
UpdateStep(o, i) ==
    Returns("update_daily_parameters", update_daily_parameters(Self, o, i))

\* |a - b| <= 0.1
Near(a, b) == IsFinite(a) /\ Abs(a - b) <= Q(1, 10)

\* C1 as stated: a stage calculation or compute() called before the previous-day
\* codes are initialised fails with the dedicated MissingStateError and produces
\* no stage output.
C1_MissingStateError ==
    [][(call' \in StageMethods /\ ~Initialised)
          => (raised' = "MissingStateError" /\ attr' = attr)]_vars

\* C1 amended: such a call fails with Python's AttributeError (the code defines
\* no error class of its own) and leaves every attribute as it was.
C1_AttributeErrorNoOutput ==
    [][(call' \in StageMethods /\ ~Initialised)
          => (raised' = "AttributeError" /\ attr' = attr)]_vars

C1_Witness == call = "compute" /\ raised = "AttributeError" /\ attr = NoAttr

\* C2: update_daily_parameters is all-or-nothing: after a call, the previous
\* codes, the observation date and the weather inputs have all been replaced by
\* the new day's values, or none of them has changed.
C2_AllOrNothing ==
    [][\A o \in Dates, i \in Weather :
          UpdateStep(o, i) =>
             \/ /\ {"ffmc", "dmc", "dc"} \subseteq DOMAIN attr
                /\ attr'.ffmc_prev = attr.ffmc
                /\ attr'.dmc_prev = attr.dmc
                /\ attr'.dc_prev = attr.dc
                /\ obs' = o
                /\ inputs' = i
             \/ /\ attr' = attr
                /\ obs' = obs
                /\ inputs' = inputs]_vars

\* C3: after set_initial_codes and one complete compute(), update_daily_parameters
\* succeeds, leaves the previous codes equal to the computed ffmc, dmc, dc and the
\* date and inputs equal to its arguments; isi, bui, fwi are not carried over.
C3_UpdateAfterCompute ==
    [][\A o \in Dates, i \in Weather :
          (Computed /\ UpdateStep(o, i)) =>
             /\ raised' = "none"
             /\ attr'.ffmc_prev = attr.ffmc
             /\ attr'.dmc_prev = attr.dmc
             /\ attr'.dc_prev = attr.dc
             /\ obs' = o
             /\ inputs' = i
             /\ DOMAIN attr' \cap {"isi_prev", "bui_prev", "fwi_prev"} = {}]_vars

\* C4: in every compute() that returns, ISI has read today's FFMC, BUI today's
\* DMC and DC, and FWI today's ISI and BUI, each of them produced from the
\* previous-day codes and the weather held at the call.
C4_DependencyOrder ==
    Computed =>
       /\ attr.ffmc = FFMC_compute(attr.ffmc_prev, inputs)
       /\ attr.dmc = DMC_compute(attr.dmc_prev, inputs, equatorial, latitude,
                                 MonthOf(obs))
       /\ attr.dc = DC_compute(attr.dc_prev, inputs, equatorial, latitude,
                               MonthOf(obs))
       /\ attr.isi = ISI_compute(inputs.wind, attr.ffmc)
       /\ attr.bui = BUI_compute(attr.dmc, attr.dc)
       /\ attr.fwi = FWI_compute(attr.isi, attr.bui)

\* a compute() that returned on a later day: the previous codes are computed
\* ones, not initial ones, and today's FFMC and ISI differ from what they give
C4_Witness ==
    /\ Computed
    /\ \A c \in InitialCodes : attr.ffmc_prev # c[1]
    /\ attr.ffmc # attr.ffmc_prev
    /\ attr.isi # ISI_compute(inputs.wind, attr.ffmc_prev)

\* C5: a daily transition repeated with the same observation date and weather is
\* not rejected: the update made after a full computation returns and takes that
\* computation's ffmc, dmc, dc as the previous codes.
C5_SameDayTwice ==
    [][(Computed /\ UpdateStep(obs, inputs)) =>
          /\ raised' = "none"
          /\ attr'.ffmc_prev = attr.ffmc
          /\ attr'.dmc_prev = attr.dmc
          /\ attr'.dc_prev = attr.dc]_vars

\* the reference start: previous codes 85, 6, 15 and the reference weather
ReferenceDay ==
    /\ Computed
    /\ attr.ffmc_prev = I(85)
    /\ attr.dmc_prev = I(6)
    /\ attr.dc_prev = I(15)
    /\ inputs = WeatherRef

\* the six outputs are within 0.1 of the given values
OutputsNear(ffmc, dmc, dc, isi, bui, fwi) ==
    /\ Near(attr.ffmc, ffmc)
    /\ Near(attr.dmc, dmc)
    /\ Near(attr.dc, dc)
    /\ Near(attr.isi, isi)
    /\ Near(attr.bui, bui)
    /\ Near(attr.fwi, fwi)

\* C6 as stated: from 85, 6, 15 and temp 17, rhum 42, wind 25, rain 0 one daily
\* computation yields 87.7, 8.5, 19.0, 10.9, 8.2, 10.9 within 0.1.
C6_ReferenceAsStated ==
    ReferenceDay =>
       OutputsNear(Q(877, 10), Q(85, 10), I(19), Q(109, 10), Q(82, 10), Q(109, 10))

\* C6 amended: in the equatorial mode a new calculator is in, the computation
\* yields 87.7, 7.8, 19.3, 10.9, 7.8, 9.7; with the mode off, an April date and
\* a pixel north of 33 degrees it yields 87.7, 8.5, 19.0, 10.9, 8.5, 10.1.
C6_ReferenceValues ==
    ReferenceDay =>
       /\ equatorial =>
             OutputsNear(Q(877, 10), Q(78, 10), Q(193, 10), Q(109, 10),
                         Q(78, 10), Q(97, 10))
       /\ (~equatorial /\ MonthOf(obs) = 4 /\ latitude > I(33)) =>
             OutputsNear(Q(877, 10), Q(85, 10), I(19), Q(109, 10),
                         Q(85, 10), Q(101, 10))

C6_Witness == ReferenceDay /\ ~equatorial /\ MonthOf(obs) = 4 /\ latitude > I(33)


(***************************************************************************)
(* The calculator through the seasons: one pixel at each latitude, an      *)
(* observation date in each month, the initial codes already set.          *)
(***************************************************************************)
YearDates == {20210000 + m * 100 + 15 : m \in 1 .. 12}

LatitudeGrid == {I(90), I(46), I(33), I(20), I(0), Neg(I(20)), Neg(I(30)),
                 Neg(I(40)), Neg(I(90))}

\* FWICalculator(obs, inputs) followed by set_initial_codes(85, 6, 15)
InitSeason ==
    /\ attr = set_initial_codes([attr |-> NoAttr], I(85), I(6), I(15)).attr
    /\ obs \in YearDates
    /\ inputs = WeatherRef
    /\ equatorial = TRUE
    /\ raised = "none"
    /\ call = "set_initial_codes"
    /\ latitude \in LatitudeGrid
    /\ calls = 1
    /\ args = NoStage
    /\ out = NoStage

NextSeason ==
    \/ SetEquatorialMode
    \/ CalculateDuffMoistureCode
    \/ CalculateDroughtCode

SpecSeason == InitSeason /\ [][NextSeason]_vars

(***************************************************************************)
(* The stage objects on their own: a stage is constructed with arguments   *)
(* drawn here and its compute() is run once.                               *)
(***************************************************************************)
StageWeather ==
    {WeatherRef, WeatherRain, WeatherDry, WeatherCold, WeatherDrizzle, WeatherHumid,
     WeatherFrost, WeatherShower}
StageDMC == {I(0), I(6), I(33), I(40), I(65), I(80), I(300)}
StageDC == {I(0), I(15), I(300), I(800), I(2100)}
StageLatitudes ==
    {I(90), I(46), I(33), I(20), I(0), Neg(I(20)), Neg(I(30)), Neg(I(40)), Neg(I(90))}
StageFFMC == {I(0), I(50), I(85), I(99), I(101)}
StageCodes == {I(0), Q(5, 10), I(1), I(5), Q(85, 10), I(40), I(100)}
StageISI == {I(0), I(1), I(5), I(10), I(50)}
StageBUI == {I(0), I(8), I(80), I(90)}

StageArgs ==
    [stage : {"ffmc"}, ffmc_prev : StageFFMC, w : StageWeather]
    \cup [stage : {"bui"}, dmc : StageCodes, dc : StageCodes]
    \cup [stage : {"fwi"}, isi : StageISI, bui : StageBUI]
    \cup [stage : {"dmc"}, dmc_prev : StageDMC, w : StageWeather]
    \cup [stage : {"dc"}, dc_prev : StageDC, w : StageWeather]
    \cup [stage : {"day_length"}, latitude : StageLatitudes, month : 1 .. 12]

\* the DMC and DC stages are constructed in April and in November, in
\* equatorial and in table-lookup mode
InitStage ==
    /\ attr = NoAttr
    /\ obs \in {20210415, 20211115}
    /\ inputs = WeatherRef
    /\ equatorial \in BOOLEAN
    /\ args \in StageArgs
    /\ args.stage \in {"dmc", "dc"} \/ (obs = 20210415 /\ equatorial)
    /\ raised = "none"
    /\ call = "__init__"
    /\ latitude = I(46)
    /\ calls = 0
    /\ out = NoStage

\* compute() of a stage object of implementation impl produced result r
Produces(impl, r) ==
    /\ out = NoStage
    /\ out' = [stage |-> args.stage, impl |-> impl, result |-> r]
    /\ UNCHANGED << attr, obs, inputs, equatorial, raised, call, latitude, calls, args >>

\* FineFuelMoistureCode(inputs, ffmc_prev).compute()
StageFineFuelMoistureCode ==
    /\ args.stage = "ffmc"
    /\ \E mo \in {FFMC_raining_phase(args.ffmc_prev, args.w)} :
       \E d \in {FFMC_drying_phase(mo, args.w)} :
           Produces("gee_fwi", [mo |-> mo, masks |-> d.masks, m |-> d.m,
                                ffmc |-> d.ffmc])

\* the legacy calculate_fine_fuel_moisture_code on the same arguments
StageLegacyFineFuelMoistureCode ==
    /\ args.stage = "ffmc"
    /\ \E mo \in {Legacy_FFMC_mo(args.ffmc_prev, args.w)} :
       \E d \in {Legacy_FFMC_drying(mo, args.w)} :
           Produces("legacy", [mo |-> mo, masks |-> d.masks, m |-> d.m,
                               ffmc |-> d.ffmc])

\* BuildupIndex(dmc, dc).compute(), with the mask and both branches it blends
StageBuildupIndex ==
    /\ args.stage = "bui"
    /\ Produces("gee_fwi", [cond |-> BUI_cond(args.dmc, args.dc),
                            B_1 |-> BUI_B_1(args.dmc, args.dc),
                            B_2 |-> BUI_B_2(args.dmc, args.dc),
                            bui |-> BUI_compute(args.dmc, args.dc)])

\* the legacy calculate_buildup_index on the same arguments
StageLegacyBuildupIndex ==
    /\ args.stage = "bui"
    /\ Produces("legacy", [bui |-> Legacy_BUI(args.dmc, args.dc)])

\* FireWeatherIndex(isi, bui).compute(), with B and both scale branches
StageFireWeatherIndex ==
    /\ args.stage = "fwi"
    /\ \E B \in {FWI_B(args.isi, args.bui)} :
           Produces("gee_fwi", [B |-> B, fwi_s |-> FWI_S(B), fwi_b |-> B,
                                fwi |-> FWI_blend(B)])

\* the legacy calculate_fire_weather_index on the same arguments
StageLegacyFireWeatherIndex ==
    /\ args.stage = "fwi"
    /\ \E B \in {Legacy_FWI_B(args.isi, args.bui)} :
           Produces("legacy", [B |-> B, fwi_s |-> Legacy_FWI_S(Legacy_FWI_B_log(B)),
                               fwi_b |-> B,
                               fwi |-> Legacy_FWI_blend(B)])

\* DuffMoistureCode(inputs, dmc_prev, equatorial, obs).compute(), with the
\* masks, the slope, the code after rain and the drying rate it goes through
StageDuffMoistureCode ==
    /\ args.stage = "dmc"
    /\ \E P_prev \in {DMC_raining_phase(args.dmc_prev, args.w)},
          day_length \in {DMC_get_day_length(equatorial, latitude, MonthOf(obs))} :
           Produces("gee_fwi",
                    [pw |-> DMC_pw(args.dmc_prev),
                     b |-> DMC_b(args.dmc_prev, Gt(args.w.rain, Q(15, 10))),
                     P_prev |-> P_prev,
                     K |-> DMC_K(args.w, day_length),
                     dmc |-> DMC_drying_phase(P_prev, args.w, day_length)])

\* the legacy calculate_duff_moisture_code on the same arguments
StageLegacyDuffMoistureCode ==
    /\ args.stage = "dmc"
    /\ \E P_prev \in {Legacy_DMC_P_prev(args.dmc_prev, args.w)},
          K \in {Legacy_DMC_K(args.w, DMC_calculate_day_length(latitude, MonthOf(obs)))} :
           Produces("legacy",
                    [pw |-> DMC_pw(args.dmc_prev),
                     b |-> Legacy_DMC_b(args.dmc_prev),
                     P_prev |-> P_prev,
                     K |-> K,
                     dmc |-> Add(P_prev, Mul(I(100), K))])

\* DroughtCode(inputs, dc_prev, equatorial, obs).compute(), with the code after
\* rain D_prev, the drying factor and the drying term V
StageDroughtCode ==
    /\ args.stage = "dc"
    /\ \E D_prev \in {DC_raining_phase(args.dc_prev, args.w)} :
       \E drying_factor \in {DC_get_drying_factor(equatorial, latitude, MonthOf(obs))} :
          Produces("gee_fwi",
                   [D_prev |-> D_prev,
                    drying_factor |-> drying_factor,
                    V |-> DC_V(args.w, drying_factor),
                    dc |-> DC_drying_phase(D_prev, args.w, drying_factor)])

\* the legacy calculate_drought_code on the same arguments
StageLegacyDroughtCode ==
    /\ args.stage = "dc"
    /\ \E D_prev \in {Legacy_DC_D_prev(args.dc_prev, args.w)} :
       \E drying_factor \in {DC_calculate_drying_factor(latitude, MonthOf(obs))} :
       \E V \in {Legacy_DC_V(args.w, drying_factor)} :
          Produces("legacy",
                   [D_prev |-> D_prev,
                    drying_factor |-> drying_factor,
                    V |-> V,
                    dc |-> Add(D_prev, Mul(Q(5, 10), V))])

\* __calculate_day_length at a pixel of latitude args.latitude in month args.month
\* (the legacy calculate_day_length is the same expression)
StageCalculateDayLength ==
    /\ args.stage = "day_length"
    /\ Produces("gee_fwi",
                [masks |-> DMC_day_length_masks(args.latitude),
                 day_length |-> DMC_calculate_day_length(args.latitude, args.month)])

NextStage ==
    \/ StageFineFuelMoistureCode
    \/ StageLegacyFineFuelMoistureCode
    \/ StageBuildupIndex
    \/ StageLegacyBuildupIndex
    \/ StageFireWeatherIndex
    \/ StageLegacyFireWeatherIndex
    \/ StageDuffMoistureCode
    \/ StageLegacyDuffMoistureCode
    \/ StageDroughtCode
    \/ StageLegacyDroughtCode
    \/ StageCalculateDayLength

SpecStage == InitStage /\ [][NextStage]_vars

(***************************************************************************)
(* Properties of the stages                                                *)
(***************************************************************************)

\* C7: for every previous code and every weather with 0 <= rhum <= 100 the FFMC
\* stage produces a value of at most 101.
C7_FFMCAtMost101 ==
    out.stage = "ffmc" => (IsFinite(out.result.ffmc) /\ out.result.ffmc <= I(101))

\* C8: in equatorial mode the DMC stage uses the day length 9.0 and the DC stage
\* the drying factor 1.39, whatever the month and the latitude.
C8_EquatorialConstants ==
    /\ (call = "calculate_duff_moisture_code" /\ raised = "none" /\ equatorial) =>
          attr.dmc = DMC_drying_phase(DMC_raining_phase(attr.dmc_prev, inputs),
                                      inputs, I(9))
    /\ (call = "calculate_drought_code" /\ raised = "none" /\ equatorial) =>
          attr.dc = DC_drying_phase(DC_raining_phase(attr.dc_prev, inputs),
                                    inputs, Q(139, 100))

\* a DMC computed in equatorial mode where the table holds another day length,
\* after the mode had been switched
C8_Witness ==
    /\ call = "calculate_duff_moisture_code"
    /\ raised = "none"
    /\ equatorial
    /\ calls >= 3
    /\ MonthOf(obs) = 7
    /\ latitude = Neg(I(40))
    /\ DMC_calculate_day_length(latitude, MonthOf(obs)) # I(9)

\* the BUI stage was run on dmc = 0 and dc = 0
BUIAtZero == out.stage = "bui" /\ args.dmc = 0 /\ args.dc = 0

\* C9 as stated: at dmc = 0, dc = 0 the stage selects the dmc <= 0.4 * dc branch,
\* both branches agree, and bui is the defined value 0.
C9_BranchesAgreeAtZero ==
    (BUIAtZero /\ out.impl = "gee_fwi") =>
       /\ out.result.cond = ONE
       /\ out.result.B_1 = out.result.B_2
       /\ out.result.bui = 0

\* C9 amended: at dmc = 0, dc = 0 the stage selects the dmc <= 0.4 * dc branch and
\* bui is the defined value 0 (a division by zero yields 0); the other branch's
\* expression is -0.92 there and is masked out.
C9_ZeroAtZero ==
    BUIAtZero =>
       /\ out.result.bui = 0
       /\ out.impl = "gee_fwi" =>
             /\ out.result.cond = ONE
             /\ out.result.B_1 = 0
             /\ out.result.B_2 = Neg(Q(92, 100))

C9_Witness == BUIAtZero /\ out.impl = "gee_fwi" /\ out.result.bui = 0

\* the FWI stage was run on an isi and bui that make B exactly 1
FWIAtSeam == out.stage = "fwi" /\ out.result.B = ONE

\* C10: at B = 1 the B-scale branch and the S-scale branch both evaluate to 1.0
\* and the blended fwi is 1.0.
C10_SeamContinuity ==
    FWIAtSeam =>
       /\ out.result.fwi_b = ONE
       /\ out.result.fwi_s = ONE
       /\ out.result.fwi = ONE

C10_Witness == FWIAtSeam /\ out.impl = "gee_fwi" /\ args.isi = I(5) /\ args.bui = 0


\* C11: for every pixel with B <= 1, B = 0 and 0 < B < 1 included, the FWI stage
\* yields fwi = B as a defined value; the masked-out S-scale expression does not
\* make the blend undefined.
C11_DefinedBelowSeam ==
    (out.stage = "fwi" /\ IsFinite(out.result.B) /\ out.result.B <= ONE) =>
       out.result.fwi = out.result.B


(***************************************************************************)
(* The stages of one day in any order: the calculator holds its initial    *)
(* codes and the callers only run stage calculations.                      *)
(***************************************************************************)
InitOrder ==
    /\ \E c \in InitialCodes :
          attr = set_initial_codes([attr |-> NoAttr], c[1], c[2], c[3]).attr
    /\ obs \in Dates
    /\ inputs \in Weather
    /\ equatorial \in BOOLEAN
    /\ raised = "none"
    /\ call = "set_initial_codes"
    /\ latitude \in Latitudes
    /\ calls = 1
    /\ args = NoStage
    /\ out = NoStage

NextOrder ==
    \/ CalculateFineFuelMoistureCode
    \/ CalculateDuffMoistureCode
    \/ CalculateDroughtCode
    \/ CalculateInitialSpreadIndex
    \/ CalculateBuildupIndex

SpecOrder == InitOrder /\ [][NextOrder]_vars

\* C12: whatever the order in which the FFMC, DMC and DC stages (and after them
\* the ISI and BUI stages) have run on fixed previous codes and weather, each
\* output present is the one the sequential order gives.
C12_AnyOrder ==
    /\ Has(Self, "ffmc") => attr.ffmc = FFMC_compute(attr.ffmc_prev, inputs)
    /\ Has(Self, "dmc") =>
          attr.dmc = DMC_compute(attr.dmc_prev, inputs, equatorial, latitude,
                                 MonthOf(obs))
    /\ Has(Self, "dc") =>
          attr.dc = DC_compute(attr.dc_prev, inputs, equatorial, latitude,
                               MonthOf(obs))
    /\ Has(Self, "isi") =>
          attr.isi = ISI_compute(inputs.wind, FFMC_compute(attr.ffmc_prev, inputs))
    /\ Has(Self, "bui") =>
          attr.bui = BUI_compute(DMC_compute(attr.dmc_prev, inputs, equatorial,
                                             latitude, MonthOf(obs)),
                                 DC_compute(attr.dc_prev, inputs, equatorial,
                                            latitude, MonthOf(obs)))

\* the DC stage ran first, the DMC stage after it, the FFMC stage not yet
C12_Witness ==
    /\ call = "calculate_duff_moisture_code"
    /\ raised = "none"
    /\ {"dmc", "dc"} \subseteq DOMAIN attr
    /\ ~Has(Self, "ffmc")
    /\ attr.dmc # attr.dmc_prev

\* C13: compute() and each calculate_* stage leave the previous codes, the
\* weather inputs, the observation date and the equatorial flag unchanged, and
\* write only the output attributes ffmc, dmc, dc, isi, bui, fwi.
C13_StagesWriteOutputsOnly ==
    [][call' \in StageMethods =>
          /\ obs' = obs
          /\ inputs' = inputs
          /\ equatorial' = equatorial
          /\ DOMAIN attr \subseteq DOMAIN attr'
          /\ DOMAIN attr' \ DOMAIN attr \subseteq Outputs
          /\ \A k \in DOMAIN attr \ Outputs : attr'[k] = attr[k]]_vars

\* a compute() that returned under rain, with all six outputs written
C13_Witness ==
    /\ Computed
    /\ Outputs \subseteq DOMAIN attr
    /\ inputs = WeatherRain
    /\ attr.dmc # attr.dmc_prev


\* C15: in the FFMC drying/wetting phase exactly one of the masks drying, wetting
\* and no-change is set, and the blended moisture m is that branch's value alone:
\* the drying value, the wetting value, or mo itself.
C15_OneBranch ==
    out.stage = "ffmc" =>
       LET r == out.result
       IN  /\ r.masks.drying + r.masks.wetting + r.masks.no_change = ONE
           /\ r.m = (IF r.masks.drying = ONE THEN r.masks.v_drying
                     ELSE IF r.masks.wetting = ONE THEN r.masks.v_wetting
                     ELSE r.mo)

\* C20: with rainfall <= 0.5 mm, 0.5 included, the FFMC raining phase changes the
\* moisture by exactly 0: mo = min(m_o, 250), a defined value.
C20_NegligibleRain ==
    (out.stage = "ffmc" /\ args.w.rain <= Q(5, 10)) =>
       /\ IsFinite(out.result.mo)
       /\ out.result.mo = Min(FFMC_m_o(args.ffmc_prev), I(250))

\* the raining phase has run on a rainfall of exactly 0.5 mm, and on no rain with
\* a moisture content above 150
C20_Witness ==
    /\ out.stage = "ffmc"
    /\ out.impl = "gee_fwi"
    /\ \/ args.w.rain = Q(5, 10)
       \/ args.w.rain = 0 /\ FFMC_m_o(args.ffmc_prev) > I(150)
    /\ IsFinite(out.result.mo)


\* C16: in the DC drying phase V is selected by the temperature mask only:
\* 0.36 * (temp + 2.8) + drying_factor when temp > -2.8, drying_factor alone
\* otherwise, for every rainfall; the drying factor is counted once.
C16_DryingTerm ==
    out.stage = "dc" =>
       out.result.V =
          (IF args.w.temp > Neg(Q(28, 10))
           THEN Add(Mul(Q(36, 100), Add(args.w.temp, Q(28, 10))),
                    out.result.drying_factor)
           ELSE out.result.drying_factor)

\* C17: with rainfall <= 1.5 mm and any dmc_prev >= 0 (0 and large values
\* included) the DMC stage yields the defined value dmc_prev + 100 * K, which is
\* dmc_prev itself when temp <= -1.1.
C17_NegligibleRainDMC ==
    (out.stage = "dmc" /\ args.w.rain <= Q(15, 10)) =>
       /\ IsFinite(out.result.dmc)
       /\ out.result.dmc = Add(args.dmc_prev, Mul(I(100), out.result.K))
       /\ args.w.temp <= Neg(Q(11, 10)) => out.result.dmc = args.dmc_prev

\* the slope expression the range of dmc_prev selects
SelectedSlope(dmc_prev) ==
    IF dmc_prev <= I(33) THEN DMC_slopes(dmc_prev).b_1
    ELSE IF dmc_prev <= I(65) THEN DMC_slopes(dmc_prev).b_2
    ELSE DMC_slopes(dmc_prev).b_3

\* C18: exactly one of the three slope masks holds for every dmc_prev (<= 33,
\* (33, 65], > 65, taken over dmc_prev), and under rain the slope b equals the
\* one closed-form expression that mask selects.
C18_OneSlope ==
    out.stage = "dmc" =>
       LET pw == out.result.pw
       IN  /\ pw.pw_1 + pw.pw_2 + pw.pw_3 = ONE
           /\ pw.pw_1 = ONE <=> args.dmc_prev <= I(33)
           /\ pw.pw_2 = ONE <=> (args.dmc_prev > I(33) /\ args.dmc_prev <= I(65))
           /\ pw.pw_3 = ONE <=> args.dmc_prev > I(65)
           /\ args.w.rain > Q(15, 10) => out.result.b = SelectedSlope(args.dmc_prev)

\* C19: in non-equatorial mode, for every latitude in [-90, 90] and every month
\* exactly one of the four day-length band masks holds, and the day length is
\* one entry of the month's table row.
C19_OneBand ==
    out.stage = "day_length" =>
       LET k == out.result.masks
       IN  /\ k.mask_1 + k.mask_2 + k.mask_3 + k.mask_4 = ONE
           /\ out.result.day_length \in
                 {Q(DayLength46N[args.month], 10), Q(DayLength20N[args.month], 10),
                  Q(DayLength20S[args.month], 10), Q(DayLength40S[args.month], 10)}



\* C27: for dmc >= 0 and dc >= 0 with dmc + 0.4 * dc > 0 the BUI stage output is
\* non-negative, in the dmc <= 0.4 * dc branch and in the other.
C27_BUINonNegative ==
    (out.stage = "bui" /\ Add(args.dmc, Mul(Q(4, 10), args.dc)) > 0) =>
       (IsFinite(out.result.bui) /\ out.result.bui >= 0)

\* C28: for every dc_prev >= 0, weather, month and latitude, in equatorial and in
\* table-lookup mode, the DC stage output dc_today is non-negative.
C28_DCNonNegative ==
    out.stage = "dc" => (IsFinite(out.result.dc) /\ out.result.dc >= 0)

\* C21: with rainfall <= 2.8 mm (2.8 included) and any dc_prev >= 0 the DC
\* raining phase passes dc_prev through as a defined value: D_prev = dc_prev and
\* dc_today = dc_prev + 0.5 * V, whatever the masked-out rain branch holds.
C21_NegligibleRainDC ==
    (out.stage = "dc" /\ args.w.rain <= Q(28, 10)) =>
       /\ out.result.D_prev = args.dc_prev
       /\ out.result.dc = Add(args.dc_prev, Mul(Q(5, 10), out.result.V))

(***************************************************************************)
(* src/FWI.py: FWICalculator, constructed with its boundary and initial    *)
(* codes set, then run from day to day across a turn of the year.          *)
(***************************************************************************)
LegacyDates == {20211115, 20211215, 20220115, 20220215}

\* dry days: the codes of a run of days stay within the range of the arithmetic
LegacyWeather == {WeatherRef, WeatherHumid}

\* delattr(self, n)
Del(s, n) ==
    IF ~Has(s, n) THEN Raise(s)
    ELSE [s EXCEPT !.attr = [k \in DOMAIN s.attr \ {n} |-> s.attr[k]]]

\* FWICalculator.calculate_day_length
Legacy_calculate_day_length(s) ==
    IF ~Has(s, "bounds") THEN Raise(s)
    ELSE Put(s, "day_length", DMC_calculate_day_length(latitude, MonthOf(s.obs)))

\* FWICalculator.calculate_drying_factor
Legacy_calculate_drying_factor(s) ==
    IF ~Has(s, "bounds") THEN Raise(s)
    ELSE Put(s, "drying_factor", DC_calculate_drying_factor(latitude, MonthOf(s.obs)))

\* cal == 1 in update_day_length and update_drying_factor
Legacy_cal(s) ==
    IF ~Has(s, "date_time_prev") THEN TRUE
    ELSE MonthOf(s.obs) - MonthOf(s.attr.date_time_prev) > 0

\* FWICalculator.update_day_length
Legacy_update_day_length(s) ==
    IF Legacy_cal(s) THEN Legacy_calculate_day_length(s) ELSE s

\* FWICalculator.update_drying_factor
Legacy_update_drying_factor(s) ==
    IF Legacy_cal(s) THEN Legacy_calculate_drying_factor(s) ELSE s

\* FWICalculator.calculate_fine_fuel_moisture_code
Legacy_calculate_fine_fuel_moisture_code(s) ==
    IF ~Has(s, "ffmc_prev") THEN Raise(s)
    ELSE Put(s, "ffmc", Legacy_FFMC(s.attr.ffmc_prev, s.inputs))

\* FWICalculator.calculate_duff_moisture_code
Legacy_calculate_duff_moisture_code(s) ==
    IF ~Has(s, "dmc_prev") THEN Raise(s)
    ELSE Then(Legacy_calculate_day_length(s),
              LAMBDA t : Put(t, "dmc", Legacy_DMC(t.attr.dmc_prev, t.inputs,
                                                  t.attr.day_length)))

\* FWICalculator.calculate_drought_code
Legacy_calculate_drought_code(s) ==
    IF ~Has(s, "dc_prev") THEN Raise(s)
    ELSE Then(Legacy_calculate_drying_factor(s),
              LAMBDA t : Put(t, "dc", Legacy_DC(t.attr.dc_prev, t.inputs,
                                                t.attr.drying_factor)))

\* mutant: the ISI takes the FFMC from the previous-day code
Legacy_calculate_initial_spread_index_prev(s) ==
    Put(s, "isi", ISI_compute(s.inputs.wind, s.attr.ffmc_prev))

\* FWICalculator.calculate_initial_spread_index
Legacy_calculate_initial_spread_index(s) ==
    Then(IF Has(s, "ffmc") THEN s ELSE Legacy_calculate_fine_fuel_moisture_code(s),
         LAMBDA t : Put(t, "isi", ISI_compute(t.inputs.wind, t.attr.ffmc)))

\* FWICalculator.calculate_buildup_index
Legacy_calculate_buildup_index(s) ==
    Then(IF Has(s, "dmc") /\ Has(s, "dc") THEN s
         ELSE Then(Legacy_calculate_duff_moisture_code(s),
                   Legacy_calculate_drought_code),
         LAMBDA t : Put(t, "bui", Legacy_BUI(t.attr.dmc, t.attr.dc)))

\* FWICalculator.calculate_fire_weather_index
Legacy_calculate_fire_weather_index(s) ==
    Then(Then(IF Has(s, "bui") THEN s ELSE Legacy_calculate_buildup_index(s),
              LAMBDA t : IF Has(t, "isi") THEN t
                         ELSE Legacy_calculate_initial_spread_index(t)),
         LAMBDA u : Put(u, "fwi", Legacy_FWI(u.attr.isi, u.attr.bui)))

\* FWICalculator.update_daily_parameters
Legacy_update_daily_parameters(s, o, i) ==
    Then(Then(Then(Then(Then(Then(Then(
         Then(Then(update_ffmc_prev(s), update_dmc_prev), update_dc_prev),
         LAMBDA t : [Put(t, "date_time_prev", t.obs) EXCEPT !.obs = o, !.inputs = i]),
         LAMBDA x : Del(x, "ffmc")),
         LAMBDA x : Del(x, "dmc")),
         LAMBDA x : Del(x, "dc")),
         LAMBDA x : Del(x, "isi")),
         LAMBDA x : Del(x, "bui")),
         LAMBDA x : Del(x, "fwi"))

\* FWICalculator.__init__, set_boundary, set_initial_ffmc, set_initial_dmc and
\* set_initial_dc have run
InitLegacy ==
    /\ latitude \in {I(46), Neg(I(40))}
    /\ \E c \in InitialCodes :
          attr = Put(set_initial_codes([attr |-> NoAttr], c[1], c[2], c[3]),
                     "bounds", latitude).attr
    /\ obs \in LegacyDates
    /\ inputs \in LegacyWeather
    /\ equatorial = FALSE
    /\ raised = "none"
    /\ call = "set_initial_dc"
    /\ calls = 0
    /\ args = NoStage
    /\ out = NoStage

LegacyCalculateFireWeatherIndex ==
    Returns("calculate_fire_weather_index", Legacy_calculate_fire_weather_index(Self))

\* the days advance
LegacyUpdateDailyParameters ==
    \E o \in LegacyDates, i \in LegacyWeather :
          /\ o > obs
          /\ Returns("update_daily_parameters", Legacy_update_daily_parameters(Self, o, i))

LegacyUpdateDayLength ==
    Returns("update_day_length", Legacy_update_day_length(Self))

LegacyUpdateDryingFactor ==
    Returns("update_drying_factor", Legacy_update_drying_factor(Self))

NextLegacy ==
    \/ LegacyCalculateFireWeatherIndex
    \/ LegacyUpdateDailyParameters
    \/ LegacyUpdateDayLength
    \/ LegacyUpdateDryingFactor

SpecLegacy == InitLegacy /\ [][NextLegacy]_vars

\* C14: for any sequence of observation dates fed through
\* update_daily_parameters, after update_day_length the held day_length, and
\* after update_drying_factor the held drying_factor, is the table value for the
\* month of the current observation, a December to January step included.
C14_TableValueOfCurrentMonth ==
    /\ (call = "update_day_length" /\ raised = "none") =>
          /\ Has(Self, "day_length")
          /\ attr.day_length = DMC_calculate_day_length(latitude, MonthOf(obs))
    /\ (call = "update_drying_factor" /\ raised = "none") =>
          /\ Has(Self, "drying_factor")
          /\ attr.drying_factor = DC_calculate_drying_factor(latitude, MonthOf(obs))


(***************************************************************************)
(* src/FWI.py: the get_ methods of FWICalculator, which compute what is    *)
(* not cached, and the set_initial_ methods.                               *)
(***************************************************************************)

\* the method that computes output n
Legacy_calculate(s, n) ==
    CASE n = "ffmc" -> Legacy_calculate_fine_fuel_moisture_code(s)
      [] n = "dmc" -> Legacy_calculate_duff_moisture_code(s)
      [] n = "dc" -> Legacy_calculate_drought_code(s)
      [] n = "isi" -> Legacy_calculate_initial_spread_index(s)
      [] n = "bui" -> Legacy_calculate_buildup_index(s)
      [] n = "fwi" -> Legacy_calculate_fire_weather_index(s)

\* the get_ method of output n: self.n renamed, computed first where it is missing
Legacy_get(s, n) == IF Has(s, n) THEN s ELSE Legacy_calculate(s, n)

\* set_initial_ffmc, set_initial_dmc, set_initial_dc: n is the attribute set
Legacy_set_initial(s, n, v) == IF ~Has(s, "bounds") THEN Raise(s) ELSE Put(s, n, v)

Getter ==
    [ffmc |-> "get_fine_fuel_moisture_code", dmc |-> "get_duff_moisture_code",
     dc |-> "get_drought_code", isi |-> "get_initial_spread_index",
     bui |-> "get_buildup_index", fwi |-> "get_fire_weather_index"]

\* a call of the get_ method of output n; out holds the image it returned
LegacyGet ==
    \E n \in Outputs :
       \E x \in {Legacy_get(Self, n)} :
          /\ calls < MaxCalls
          /\ calls' = calls + 1
          /\ attr' = x.attr
          /\ raised' = x.raised
          /\ call' = Getter[n]
          /\ out' = IF x.raised = "none"
                    THEN [stage |-> "get", name |-> n, result |-> x.attr[n]]
                    ELSE NoStage
          /\ UNCHANGED << obs, inputs, equatorial, latitude, args >>

\* the argument of set_initial_ffmc is c[1], of set_initial_dmc c[2], of
\* set_initial_dc c[3]
LegacySetInitial ==
    \E k \in 1 .. 3, c \in InitialCodes :
       Returns(<< "set_initial_ffmc", "set_initial_dmc", "set_initial_dc" >>[k],
               Legacy_set_initial(Self, << "ffmc_prev", "dmc_prev", "dc_prev" >>[k],
                                  c[k]))

\* only get_ methods are called, in any order
SpecLegacyGet == InitLegacy /\ [][LegacyGet]_vars

\* how many method calls a run of set_initial_, get_ and update calls makes
MaxDayCalls == 4

NextLegacyDays ==
    \/ calls < MaxDayCalls /\ LegacyGet
    \/ calls < MaxDayCalls /\ LegacySetInitial
    \/ calls < MaxDayCalls /\ LegacyUpdateDailyParameters

\* one calculator, set up at latitude 46 for the first date
InitLegacyDays ==
    /\ InitLegacy
    /\ latitude = I(46)
    /\ obs = 20211115
    /\ inputs = WeatherRef
    /\ attr.ffmc_prev = I(85)

SpecLegacyDays == InitLegacyDays /\ [][NextLegacyDays]_vars

\* the six stage results for the previous-day codes, the date and the weather
\* the calculator holds
LegacyToday ==
    Once(<< Legacy_FFMC(attr.ffmc_prev, inputs),
            Legacy_DMC(attr.dmc_prev, inputs,
                       DMC_calculate_day_length(latitude, MonthOf(obs))),
            Legacy_DC(attr.dc_prev, inputs,
                      DC_calculate_drying_factor(latitude, MonthOf(obs))) >>,
         LAMBDA c :
            Once2(ISI_compute(inputs.wind, c[1]), Legacy_BUI(c[2], c[3]),
                  LAMBDA isi, bui :
                     [ffmc |-> c[1], dmc |-> c[2], dc |-> c[3], isi |-> isi,
                      bui |-> bui, fwi |-> Legacy_FWI(isi, bui)]))

\* C23: from a state with boundary, weather and previous codes set and nothing
\* cached, every order of get_ calls returns the same six values, the stage
\* results of the current day; get_fire_weather_index called first computes all
\* of ffmc, dmc, dc, isi, bui and fwi.
C23_AnyOrderOfGetters ==
    \E today \in {LegacyToday} :
       /\ raised = "none"
       /\ \A n \in Outputs : Has(Self, n) => attr[n] = today[n]
       /\ out.stage = "get" => out.result = today[out.name]
       /\ (call = Getter["fwi"] /\ calls = 1) => Outputs \subseteq DOMAIN attr

\* C23 witness: get_fire_weather_index was called first and all six are cached
C23_Witness ==
    /\ call = Getter["fwi"]
    /\ calls = 1
    /\ raised = "none"
    /\ out.stage = "get"
    /\ out.name = "fwi"
    /\ Outputs \subseteq DOMAIN attr
    /\ IsFinite(attr.fwi)

\* C24: after any sequence of set_initial_, get_ and update_daily_parameters
\* calls, what a get_ method returns is the stage result for the previous codes
\* and the weather held at the call.
C24_GetterNeverStale ==
    (out.stage = "get" /\ call = Getter[out.name] /\ raised = "none") =>
       out.result = LegacyToday[out.name]

(***************************************************************************)
(* src/gee_fwi/FWI.py: compute() called again and again on a calculator    *)
(* that holds its initial codes, with no other call in between.            *)
(***************************************************************************)
InitTwice ==
    /\ \E c \in InitialCodes :
          attr = set_initial_codes([attr |-> NoAttr], c[1], c[2], c[3]).attr
    /\ obs \in Dates
    /\ inputs \in StageWeather
    /\ equatorial \in BOOLEAN
    /\ raised = "none"
    /\ call = "set_initial_codes"
    /\ latitude \in Latitudes
    /\ calls = 1
    /\ args = NoStage
    /\ out = NoStage

SpecTwice == InitTwice /\ [][Compute]_vars

\* C25: a compute() that follows a compute() directly returns the same fwi and
\* leaves the same ffmc, dmc, dc, isi and bui: compute alone does not advance
\* the day.
C25_ComputeTwice ==
    [][(Computed /\ call' = "compute") =>
          /\ raised' = "none"
          /\ \A n \in Outputs : attr'[n] = attr[n]
          /\ attr' = attr
          /\ obs' = obs
          /\ inputs' = inputs
          /\ equatorial' = equatorial]_vars

\* C25 witness: compute() has returned twice since the initial codes were set,
\* under rain and in table-lookup mode
C25_Witness ==
    /\ Computed
    /\ calls = 3
    /\ Outputs \subseteq DOMAIN attr
    /\ inputs = WeatherRain
    /\ ~equatorial
    /\ attr.ffmc # attr.ffmc_prev

\* C26: a new FWICalculator is in equatorial mode; the flag changes only through
\* set_equatorial_mode, and compute, set_initial_codes and
\* update_daily_parameters leave it alone; within one compute() the DMC stage
\* and the DC stage are given the same flag, the one the calculator holds.
C26_EquatorialFlag ==
    /\ [](calls = 0 => equatorial = TRUE)
    /\ [][call' # "set_equatorial_mode" => equatorial' = equatorial]_vars
    /\ [](Computed =>
            /\ attr.dmc = DMC_compute(attr.dmc_prev, inputs, equatorial, latitude,
                                      MonthOf(obs))
            /\ attr.dc = DC_compute(attr.dc_prev, inputs, equatorial, latitude,
                                    MonthOf(obs)))

\* C26 witness: a compute() in table-lookup mode, where both stages give other
\* values than in equatorial mode
C26_Witness ==
    /\ Computed
    /\ equatorial = FALSE
    /\ attr.dmc # DMC_compute(attr.dmc_prev, inputs, TRUE, latitude, MonthOf(obs))
    /\ attr.dc # DC_compute(attr.dc_prev, inputs, TRUE, latitude, MonthOf(obs))

(***************************************************************************)
(* src/FWIInputs.py and src/gee_fwi/FWIInputs.py: the weather providers.   *)
(* A date is its day number and a datetime its hour number, 24 * day +     *)
(* hour.  An image is the record of what it was made from: the hour of the *)
(* dataset image or the window of the hourly collection (src), the scale   *)
(* it was last reprojected to (0: native) and, for rhum, the temperature   *)
(* image that entered the formula.                                         *)
(***************************************************************************)
ProviderDates == 1 .. 4

\* dateutil.tz.gettz(self.timezone): the standard UTC offset in hours of
\* 'Asia/Jakarta' and of 'Pacific/Tongatapu'
Timezones == {7, 13}

ProviderClasses ==
    [stage : {"inputs"}, package : {"legacy"}, class : {"FWI_ERA5", "FWI_GFS_GSMAP"}]
    \cup [stage : {"inputs"}, package : {"gee_fwi"}, class : {"FWI_ERA5"}]

Scales == {1000, 5000}

\* utc_datetime of the legacy __get_fwi_inputs: 05:00 UTC of self.date
Legacy_utc_datetime(s) == 24 * s.attr.date + 5

\* utc_datetime of the gee_fwi __get_fwi_inputs: local noon of self.date in UTC
utc_datetime(s) == 24 * s.attr.date + 12 - s.attr.timezone

\* the hourly collection filtered to the 24 hours before utc
FilterDate(utc) == [start |-> utc - 24, end |-> utc]

\* FWI_ERA5.__calculate_temperature
ERA5_calculate_temperature(s) ==
    Put(s, "temp", [band |-> "temperature_2m", src |-> s.attr.era5, scale |-> 0])

\* FWI_ERA5.__calculate_relative_humidity: temp is self.temp where it exists
ERA5_calculate_relative_humidity(s) ==
    Once(IF Has(s, "temp") THEN s ELSE ERA5_calculate_temperature(s),
         LAMBDA t : Put(t, "rhum", [band |-> "dewpoint_temperature_2m",
                                    src |-> t.attr.era5, temp |-> t.attr.temp,
                                    scale |-> 0]))

\* FWI_ERA5.__calculate_wind
ERA5_calculate_wind(s) ==
    Put(s, "wind", [band |-> "wind_10m", src |-> s.attr.era5, scale |-> 0])

\* FWI_ERA5.__calculate_rain
ERA5_calculate_rain(s) ==
    Put(s, "rain", [band |-> "total_precipitation", src |-> s.attr.era5_rain,
                    scale |-> 0])

\* mutant: the relative humidity is computed before the temperature
ERA5_get_fwi_inputs_rhum_first(s, utc) ==
    Then(Then(Then(Put(Put(s, "era5_rain", FilterDate(utc)), "era5", utc),
                   ERA5_calculate_relative_humidity),
              ERA5_calculate_temperature),
         LAMBDA t : ERA5_calculate_rain(ERA5_calculate_wind(t)))

\* FWI_ERA5.__get_fwi_inputs, utc being its utc_datetime
ERA5_get_fwi_inputs(s, utc) ==
    Then(Then(Then(Put(Put(s, "era5_rain", FilterDate(utc)), "era5", utc),
                   ERA5_calculate_temperature),
              ERA5_calculate_relative_humidity),
         LAMBDA t : ERA5_calculate_rain(ERA5_calculate_wind(t)))

\* FWI_GFS_GSMAP.__get_fwi_inputs with its four __calculate methods
GFS_get_fwi_inputs(s) ==
    Once(Put(Put(s, "gfs", Legacy_utc_datetime(s)),
             "gsmap", FilterDate(Legacy_utc_datetime(s))),
         LAMBDA t :
            Put(Put(Put(Put(t,
               "temp", [band |-> "temperature_2m_above_ground",
                        src |-> t.attr.gfs, scale |-> 0]),
               "rhum", [band |-> "relative_humidity_2m_above_ground",
                        src |-> t.attr.gfs, scale |-> 0]),
               "wind", [band |-> "wind_10m_above_ground",
                        src |-> t.attr.gfs, scale |-> 0]),
               "rain", [band |-> "hourlyPrecipRateGC",
                        src |-> t.attr.gsmap, scale |-> 0]))

\* __get_fwi_inputs of the provider class c
get_fwi_inputs(s, c) ==
    IF c.class = "FWI_GFS_GSMAP" THEN GFS_get_fwi_inputs(s)
    ELSE IF c.package = "legacy" THEN ERA5_get_fwi_inputs(s, Legacy_utc_datetime(s))
    ELSE ERA5_get_fwi_inputs(s, utc_datetime(s))

\* update_fwi_inputs(date) of the legacy providers
update_fwi_inputs(s, c, date) == get_fwi_inputs(Put(s, "date", date), c)

\* image.resample(interpolation).reproject(crs, scale)
Reproject(image, scale) == [image EXCEPT !.scale = scale]

\* preprocess of a provider
preprocess(s, scale) ==
    Put(Put(Put(Put(s, "temp", Reproject(s.attr.temp, scale)),
                "rhum", Reproject(s.attr.rhum, scale)),
            "wind", Reproject(s.attr.wind, scale)),
        "rain", Reproject(s.attr.rain, scale))

\* __init__(date, bounds) of a legacy provider, __init__(date, timezone, bounds) of
\* a gee_fwi provider
InitInputs ==
    /\ args \in ProviderClasses
    /\ \E date \in ProviderDates, timezone \in Timezones :
          attr = get_fwi_inputs(
                    [attr |-> IF args.package = "legacy"
                              THEN [n \in {"date"} |-> date]
                              ELSE [n \in {"date", "timezone"} |->
                                      IF n = "date" THEN date ELSE timezone],
                     raised |-> "none"], args).attr
    /\ obs = 20210415
    /\ inputs = WeatherRef
    /\ equatorial = TRUE
    /\ raised = "none"
    /\ call = "__init__"
    /\ latitude = I(46)
    /\ calls = 0
    /\ out = NoStage

\* update_fwi_inputs exists in src/FWIInputs.py only
UpdateFwiInputs ==
    /\ args.package = "legacy"
    /\ \E date \in ProviderDates :
          Returns("update_fwi_inputs", update_fwi_inputs(Self, args, date))

Preprocess ==
    \E scale \in Scales : Returns("preprocess", preprocess(Self, scale))

NextInputs ==
    \/ UpdateFwiInputs
    \/ Preprocess

SpecInputs == InitInputs /\ [][NextInputs]_vars

\* the hour the provider's images are to be of: noon of self.date
NoonOfDate ==
    IF args.package = "legacy" THEN 24 * attr.date + 5
    ELSE 24 * attr.date + 12 - attr.timezone

\* the source an attribute's image is to have: the 24 hours before noon for
\* rain, the image of noon for the others
SourceOfDate(n) ==
    IF n = "rain" THEN [start |-> NoonOfDate - 24, end |-> NoonOfDate] ELSE NoonOfDate

\* C22: after construction and after every update_fwi_inputs(date), temp, rhum,
\* wind and rain are all derived from self.date, the date supplied last; the
\* relative humidity of FWI_ERA5 is computed from the temperature of that date.
C22_InputsOfCurrentDate ==
    (args.stage = "inputs" /\ raised = "none") =>
       /\ \A n \in {"temp", "rhum", "wind", "rain"} :
             Has(Self, n) /\ attr[n].src = SourceOfDate(n)
       /\ args.class = "FWI_ERA5" =>
             /\ attr.rhum.temp.src = NoonOfDate
             /\ attr.rhum.temp.band = "temperature_2m"

\* C22 witness: an FWI_ERA5 provider of src/FWIInputs.py, updated more than once,
\* holds the images of day 2, the date supplied last
C22_Witness ==
    /\ args.stage = "inputs"
    /\ args.class = "FWI_ERA5"
    /\ call = "update_fwi_inputs"
    /\ calls >= 3
    /\ attr.date = 2
    /\ attr.era5 = 24 * 2 + 5
    /\ attr.temp.src = 24 * 2 + 5
    /\ attr.rhum.temp.src = 24 * 2 + 5
=============================================================================
